---- MODULE Spec2Model ----
(***************************************************************************)
(* A model of the options-resolution pipeline of derive_builder:           *)
(*   - derive_builder_macro/src/lib.rs            builder_for_struct       *)
(*   - derive_builder_macro/src/options/*.rs      StructOptions,           *)
(*                                                FieldOptions, LegacyVis, *)
(*                                                DefaultExpression        *)
(*   - derive_builder/src/options/field_options.rs the older FieldOptions  *)
(* and of the builder the expansion generates (setters and build), whose   *)
(* emitters live in derive_builder_core.                                   *)
(***************************************************************************)
EXTENDS Integers, Sequences, FiniteSets, TLC

VARIABLES
    ast,        \* the annotated declaration handed to builder_for_struct
    pc,         \* position inside builder_for_struct / the generated builder
    s_level,    \* Option<StructOptions>
    builder,    \* Option<Builder>
    build_fn,   \* Option<BuildMethod>
    idx,        \* index of the field the `for f in fields` loop is at
    f_level,    \* Option<FieldOptions> of the field being processed
    fatal,      \* Option<panic message> of the expansion
    slots,      \* the generated builder's field slots, field ident -> Option<value>
    calls,      \* number of setter calls made on the generated builder
    result,     \* Option<outcome of the last call of the generated build method>
    legacy      \* the older FieldOptions record and its projections

vars == <<ast, pc, s_level, builder, build_fn, idx, f_level, fatal, slots, calls, result, legacy>>

-----------------------------------------------------------------------------
(* Rust's Option<T>, Result and panics *)

None == <<>>
Some(v) == <<v>>
IsSome(o) == o # <<>>
IsNone(o) == o = <<>>
Unwrap(o) == o[1]
UnwrapOr(o, d) == IF o = <<>> THEN d ELSE o[1]
\* Option<bool>::unwrap_or_default()
UnwrapOrDefault(o) == IF o = <<>> THEN FALSE ELSE o[1]
\* Option<()> from the presence of a bare word
Unit == <<>>
Word(present) == IF present THEN Some(Unit) ELSE None

\* A computation that either returns a value or panics (aborting the expansion).
Ok(v) == [ok |-> TRUE, val |-> v]
Panic(m) == [ok |-> FALSE, msg |-> m]

-----------------------------------------------------------------------------
(* Bounds of the model *)

\* longest attribute list written on one field
MaxAttrs == 2
\* most setter calls made on one generated builder
MaxSetterCalls == 2

-----------------------------------------------------------------------------
(* Value domains *)

VIS_INHERITED == "Inherited"
VIS_PUBLIC == "Public"
Visibilities == {VIS_INHERITED, VIS_PUBLIC}

BuilderPatterns == {"Owned", "Mutable", "Immutable"}
\* BuilderPattern::default()
DefaultPattern == "Mutable"

\* Bindings::default()
DefaultBindings == "Std"

\* Converts the presence of the `no_std` word to a Bindings instance.
no_std_to_bindings(b) == IF b THEN "NoStd" ELSE "Std"

\* enum DefaultExpression { Explicit(String), Trait }
Trait == [tag |-> "Trait"]
Explicit(s) == [tag |-> "Explicit", text |-> s]

-----------------------------------------------------------------------------
(* options/mod.rs: LegacyVis, FieldItem, DefaultExpression *)

\* to_visibility with the contradiction silently resolved to public
to_visibility_PublicWins(declared_public, declared_private) ==
    CASE declared_public -> [ok |-> TRUE, val |-> <<"Public">>]
      [] ~declared_public /\ declared_private -> [ok |-> TRUE, val |-> <<"Inherited">>]
      [] OTHER -> [ok |-> TRUE, val |-> <<>>]

\* LegacyVis::to_visibility over the two presence markers of any implementor.
to_visibility(declared_public, declared_private) ==
    CASE declared_public /\ declared_private -> Panic("A field cannot be both private and public")
      [] declared_public /\ ~declared_private -> Ok(Some(VIS_PUBLIC))
      [] ~declared_public /\ declared_private -> Ok(Some(VIS_INHERITED))
      [] OTHER -> Ok(None)

\* impl LegacyVis for FieldItem, StructOptions, FieldOptions and the struct-level
\* SetterOptions: each reads its own `public` and `private` Option<()>.
declared_public(o) == IsSome(o.public)
declared_private(o) == IsSome(o.private)

\* struct FieldItem parsed from a written field(...) item
FieldItem(w) == [public |-> Word(w.public), private |-> Word(w.private)]

\* FieldItem::take_vis
take_vis(item) == to_visibility(declared_public(item), declared_private(item))

\* The text the Trait sentinel resolves to in the macro crate.
ExportDefaultPath == "::derive_builder::export::Default::default()"

\* Texts that `str::parse::<Block>` rejects.
UnparsableTexts == {"42 +"}
ParsesAsBlock(text) == text \notin UnparsableTexts

\* parse_block without the check for an empty explicit text
parse_block_AllowsEmpty(d) ==
    LET expr == IF d.tag = "Explicit" THEN d.text ELSE ExportDefaultPath
    IN  IF ParsesAsBlock(expr) THEN Ok(expr) ELSE Panic("Couldn't parse default expression")

\* DefaultExpression::parse_block of the macro crate (no bindings argument).
parse_block(d) ==
    LET expr == IF d.tag = "Explicit" THEN d.text ELSE ExportDefaultPath
    IN  IF d.tag = "Explicit" /\ d.text = ""
        THEN Panic("Empty default expressions are not supported.")
        ELSE IF ParsesAsBlock(expr)
             THEN Ok(expr)
             ELSE Panic("Couldn't parse default expression")

\* Option<DefaultExpression>.as_ref().map(DefaultExpression::parse_block)
map_parse_block(o) ==
    IF IsNone(o) THEN Ok(None)
    ELSE LET b == parse_block(Unwrap(o))
         IN  IF b.ok THEN Ok(Some(b.val)) ELSE b

-----------------------------------------------------------------------------
(* options/struct_options.rs *)

\* cfg!(feature = "struct_default") and cfg!(feature = "private_fields")
FeatureStructDefault == FALSE
FeaturePrivateFields == FALSE

\* BuildFnOptions::default()
DefaultBuildFnOptions == [skip |-> FALSE, name |-> "build", validate |-> None]

\* The struct-level SetterOptions parsed from a written setter(...) block.
StructSetterOptions(w) ==
    [prefix |-> w.prefix, into |-> w.into, skip |-> w.skip,
     private |-> Word(w.private), public |-> Word(w.public)]

\* StructOptions::finish: the deprecation notes.
finish(s) ==
    LET n1 == IF ~FeatureStructDefault /\ IsSome(s.default)
              THEN <<"struct_default">> ELSE <<>>
        n2 == IF ~FeaturePrivateFields /\ IsNone(s.field)
              THEN <<"private_fields">> ELSE <<>>
    IN  [s EXCEPT !.deprecation_notes = s.deprecation_notes \o n1 \o n2]

\* StructOptions::from_derive_input, as derived by darling from the field
\* attributes of StructOptions; absent options take From<Ident>'s defaults.
StructFromDeriveInput(a) ==
    LET w == a.attrs
        fld == IF IsNone(w.field) THEN Ok(None) ELSE take_vis(FieldItem(Unwrap(w.field)))
    IN  IF ~fld.ok THEN fld
        ELSE Ok(finish(
            [ident |-> a.ident,
             vis |-> a.vis,
             pattern |-> UnwrapOr(w.pattern, DefaultPattern),
             name |-> w.name,
             build_fn |-> UnwrapOr(w.build_fn, DefaultBuildFnOptions),
             setter |-> IF IsNone(w.setter) THEN None
                        ELSE Some(StructSetterOptions(Unwrap(w.setter))),
             try_setter |-> w.try_setter,
             default |-> w.default,
             public |-> Word(w.public),
             private |-> Word(w.private),
             field |-> fld.val,
             bindings |-> IF w.no_std THEN no_std_to_bindings(TRUE) ELSE DefaultBindings,
             deprecation_notes |-> <<>>]))

\* StructOptions::builder_ident
builder_ident(s) == UnwrapOr(s.name, s.ident \o "Builder")

\* as_builder with the field(...) override consulted before the declared visibility
as_builder_FieldOverride(s) ==
    LET v == to_visibility(declared_public(s), declared_private(s))
    IN  IF ~v.ok THEN v
        ELSE Ok([enabled |-> TRUE,
                 ident |-> builder_ident(s),
                 pattern |-> s.pattern,
                 visibility |-> UnwrapOr(v.val, UnwrapOr(s.field, s.vis)),
                 fields |-> <<>>,
                 functions |-> <<>>,
                 build_fn |-> None,
                 doc_comment |-> None,
                 bindings |-> DefaultBindings,
                 deprecation_notes |-> s.deprecation_notes])

\* StructOptions::as_builder
as_builder(s) ==
    LET v == to_visibility(declared_public(s), declared_private(s))
    IN  IF ~v.ok THEN v
        ELSE Ok([enabled |-> TRUE,
                 ident |-> builder_ident(s),
                 pattern |-> s.pattern,
                 visibility |-> UnwrapOr(v.val, s.vis),
                 fields |-> <<>>,
                 functions |-> <<>>,
                 build_fn |-> None,
                 doc_comment |-> None,
                 bindings |-> DefaultBindings,
                 deprecation_notes |-> s.deprecation_notes])

\* StructOptions::as_build_method
\* as_build_method that drops the configured validation path
as_build_method_NoValidate(s) ==
    LET d == map_parse_block(s.default)
    IN  IF ~d.ok THEN d
        ELSE Ok([enabled |-> ~s.build_fn.skip,
                 ident |-> s.build_fn.name,
                 visibility |-> s.vis,
                 pattern |-> s.pattern,
                 target_ty |-> s.ident,
                 initializers |-> <<>>,
                 doc_comment |-> None,
                 bindings |-> s.bindings,
                 default_struct |-> d.val,
                 validate_fn |-> None])

as_build_method(s) ==
    LET d == map_parse_block(s.default)
    IN  IF ~d.ok THEN d
        ELSE Ok([enabled |-> ~s.build_fn.skip,
                 ident |-> s.build_fn.name,
                 visibility |-> s.vis,
                 pattern |-> s.pattern,
                 target_ty |-> s.ident,
                 initializers |-> <<>>,
                 doc_comment |-> None,
                 bindings |-> s.bindings,
                 default_struct |-> d.val,
                 validate_fn |-> s.build_fn.validate])

-----------------------------------------------------------------------------
(* options/field_options.rs of the macro crate *)

\* #[darling(attributes(builder), forward_attrs(allow, cfg, doc))]
ForwardAttrs == {"allow", "cfg", "doc"}

\* SetterOptions::default() of the field-level SetterOptions
DefaultSetterOptions == [name |-> None, prefix |-> None, skip |-> None, into |-> None]

\* presence_enables with the flag inverted
presence_enables_Skips(self) ==
    IF IsNone(self.skip) THEN [self EXCEPT !.skip = Some(TRUE)] ELSE self

\* SetterOptions::presence_enables
presence_enables(self) ==
    IF IsNone(self.skip) THEN [self EXCEPT !.skip = Some(FALSE)] ELSE self

\* SetterOptions::from_override
from_override(v) ==
    IF v.tag = "Explicit"
    THEN presence_enables(v.val)
    ELSE [DefaultSetterOptions EXCEPT !.skip = Some(FALSE)]

\* from_field without forward_attrs: every written attribute is kept
FieldFromField_KeepsAllAttrs(f) ==
    LET w == f.builder
        fld == IF IsNone(w.field) THEN Ok(None) ELSE take_vis(FieldItem(Unwrap(w.field)))
    IN  IF ~fld.ok THEN fld
        ELSE Ok([ident |-> f.ident,
                 ty |-> f.ty,
                 vis |-> f.vis,
                 attrs |-> f.attrs,
                 setter |-> IF IsNone(w.setter) THEN DefaultSetterOptions
                            ELSE from_override(Unwrap(w.setter)),
                 try_setter |-> w.try_setter,
                 default |-> w.default,
                 pattern |-> w.pattern,
                 field |-> fld.val,
                 private |-> Word(w.private),
                 public |-> Word(w.public),
                 bindings |-> DefaultBindings,
                 deprecation_notes |-> <<>>,
                 use_default_struct |-> FALSE])

\* FieldOptions::from_field, as derived by darling from the field attributes of
\* FieldOptions: `map` functions run on written options only, absent options
\* take their Default, #[darling(skip)] members take their Default.
FieldFromField(f) ==
    LET w == f.builder
        fld == IF IsNone(w.field) THEN Ok(None) ELSE take_vis(FieldItem(Unwrap(w.field)))
    IN  IF ~fld.ok THEN fld
        ELSE Ok([ident |-> f.ident,
                 ty |-> f.ty,
                 vis |-> f.vis,
                 attrs |-> SelectSeq(f.attrs, LAMBDA a : a \in ForwardAttrs),
                 setter |-> IF IsNone(w.setter) THEN DefaultSetterOptions
                            ELSE from_override(Unwrap(w.setter)),
                 try_setter |-> w.try_setter,
                 default |-> w.default,
                 pattern |-> w.pattern,
                 field |-> fld.val,
                 private |-> Word(w.private),
                 public |-> Word(w.public),
                 bindings |-> DefaultBindings,
                 deprecation_notes |-> <<>>,
                 use_default_struct |-> FALSE])

\* impl From<(syn::Ident, syn::Ty)> for FieldOptions: every option at its Default
FieldOptionsFrom(ident, ty) ==
    [ident |-> ident,
     ty |-> ty,
     vis |-> VIS_INHERITED,
     attrs |-> <<>>,
     setter |-> DefaultSetterOptions,
     try_setter |-> None,
     default |-> None,
     pattern |-> None,
     field |-> None,
     private |-> None,
     public |-> None,
     bindings |-> DefaultBindings,
     deprecation_notes |-> <<>>,
     use_default_struct |-> FALSE]

\* format!("{}_{}", prefix, field_ident)
PrefixedName(prefix, field_ident) == prefix \o "_" \o field_ident

\* SetterOptions::with_defaults with the parent's prefix applied before the local one
setter_with_defaults_ParentPrefixFirst(self, parent, field_ident) ==
    LET s1 == IF IsSome(parent) /\ IsNone(self.into)
              THEN [self EXCEPT !.into = Some(Unwrap(parent).into)] ELSE self
        s2 == IF IsSome(parent) /\ IsNone(s1.name) /\ IsSome(Unwrap(parent).prefix)
              THEN [s1 EXCEPT !.name = Some(PrefixedName(Unwrap(Unwrap(parent).prefix), field_ident))]
              ELSE s1
    IN  IF IsNone(s2.name) /\ IsSome(s2.prefix)
        THEN [s2 EXCEPT !.name = Some(PrefixedName(Unwrap(s2.prefix), field_ident))]
        ELSE s2

\* SetterOptions::with_defaults
setter_with_defaults(self, parent, field_ident) ==
    LET s1 == IF IsNone(self.name) /\ IsSome(self.prefix)
              THEN [self EXCEPT !.name = Some(PrefixedName(Unwrap(self.prefix), field_ident))]
              ELSE self
    IN  IF IsNone(parent) THEN s1
        ELSE LET p == Unwrap(parent)
                 s2 == IF IsNone(s1.into) THEN [s1 EXCEPT !.into = Some(p.into)] ELSE s1
             IN  IF IsNone(s2.name) /\ IsSome(p.prefix)
                 THEN [s2 EXCEPT !.name = Some(PrefixedName(Unwrap(p.prefix), field_ident))]
                 ELSE s2

\* FieldOptions::with_defaults without the struct-level default fallback
with_defaults_NoStructDefault(self, parent) ==
    [self EXCEPT
        !.try_setter = IF IsNone(self.try_setter) /\ IsSome(parent.try_setter)
                       THEN parent.try_setter ELSE self.try_setter,
        !.pattern = IF IsNone(self.pattern) THEN Some(parent.pattern) ELSE self.pattern,
        !.setter = setter_with_defaults(self.setter, parent.setter, self.ident),
        !.bindings = parent.bindings]

\* FieldOptions::with_defaults that lets the struct-level values win
with_defaults_ParentWins(self, parent) ==
    [self EXCEPT
        !.try_setter = IF IsSome(parent.try_setter)
                       THEN parent.try_setter ELSE self.try_setter,
        !.use_default_struct = IF IsNone(self.default) /\ IsSome(parent.default)
                               THEN TRUE ELSE self.use_default_struct,
        !.pattern = Some(parent.pattern),
        !.setter = setter_with_defaults(self.setter, parent.setter, self.ident),
        !.bindings = parent.bindings]

\* FieldOptions::with_defaults that does not inherit the pattern
with_defaults_NoPattern(self, parent) ==
    [self EXCEPT
        !.try_setter = IF IsNone(self.try_setter) /\ IsSome(parent.try_setter)
                       THEN parent.try_setter ELSE self.try_setter,
        !.use_default_struct = IF IsNone(self.default) /\ IsSome(parent.default)
                               THEN TRUE ELSE self.use_default_struct,
        !.setter = setter_with_defaults(self.setter, parent.setter, self.ident),
        !.bindings = parent.bindings]

\* FieldOptions::with_defaults
with_defaults(self, parent) ==
    [self EXCEPT
        !.try_setter = IF IsNone(self.try_setter) /\ IsSome(parent.try_setter)
                       THEN parent.try_setter ELSE self.try_setter,
        !.use_default_struct = IF IsNone(self.default) /\ IsSome(parent.default)
                               THEN TRUE ELSE self.use_default_struct,
        !.pattern = IF IsNone(self.pattern) THEN Some(parent.pattern) ELSE self.pattern,
        !.setter = setter_with_defaults(self.setter, parent.setter, self.ident),
        !.bindings = parent.bindings]

\* FieldOptions::setter_name
setter_name(self) == UnwrapOr(self.setter.name, self.ident)

ExpectPattern == "Field-level builder pattern should either have been set or inherited"

\* as_builder_field without the field(...) override
as_builder_field_DeclaredOnly(self) ==
    Ok([field_ident |-> self.ident,
        field_type |-> self.ty,
        setter_enabled |-> ~UnwrapOrDefault(self.setter.skip),
        field_visibility |-> self.vis,
        attrs |-> self.attrs,
        bindings |-> self.bindings])

\* FieldOptions::as_builder_field
as_builder_field(self) ==
    Ok([field_ident |-> self.ident,
        field_type |-> self.ty,
        setter_enabled |-> ~UnwrapOrDefault(self.setter.skip),
        field_visibility |-> UnwrapOr(self.field, self.vis),
        attrs |-> self.attrs,
        bindings |-> self.bindings])

\* FieldOptions::as_setter
as_setter(self) ==
    LET v == to_visibility(declared_public(self), declared_private(self))
    IN  IF ~v.ok THEN v
        ELSE IF IsNone(self.pattern) THEN Panic(ExpectPattern)
        ELSE Ok([enabled |-> ~UnwrapOrDefault(self.setter.skip),
                 try_setter |-> UnwrapOrDefault(self.try_setter),
                 visibility |-> UnwrapOr(v.val, self.vis),
                 pattern |-> Unwrap(self.pattern),
                 attrs |-> self.attrs,
                 ident |-> setter_name(self),
                 field_ident |-> self.ident,
                 field_type |-> self.ty,
                 generic_into |-> UnwrapOrDefault(self.setter.into),
                 deprecation_notes |-> self.deprecation_notes,
                 bindings |-> self.bindings])

\* as_initializer that forgets the field's own default expression
as_initializer_DropsDefault(self) ==
    IF IsNone(self.pattern) THEN Panic(ExpectPattern)
    ELSE Ok([setter_enabled |-> ~UnwrapOrDefault(self.setter.skip),
             field_ident |-> self.ident,
             builder_pattern |-> Unwrap(self.pattern),
             default_value |-> None,
             use_default_struct |-> self.use_default_struct,
             bindings |-> self.bindings])

\* FieldOptions::as_initializer
as_initializer(self) ==
    LET d == map_parse_block(self.default)
    IN  IF IsNone(self.pattern) THEN Panic(ExpectPattern)
        ELSE IF ~d.ok THEN d
        ELSE Ok([setter_enabled |-> ~UnwrapOrDefault(self.setter.skip),
                 field_ident |-> self.ident,
                 builder_pattern |-> Unwrap(self.pattern),
                 default_value |-> d.val,
                 use_default_struct |-> self.use_default_struct,
                 bindings |-> self.bindings])

-----------------------------------------------------------------------------
(* derive_builder/src/options/field_options.rs: the older FieldOptions *)

StdDefaultPath == "::std::default::Default::default()"
CoreDefaultPath == "::core::default::Default::default()"

\* DefaultExpression::parse_block(&self, no_std) of the derive_builder crate
legacy_parse_block(d, no_std) ==
    LET expr == IF d.tag = "Explicit" THEN d.text
                ELSE IF no_std THEN CoreDefaultPath ELSE StdDefaultPath
    IN  IF d.tag = "Explicit" /\ d.text = ""
        THEN Panic("Empty default expressions are not supported.")
        ELSE IF ParsesAsBlock(expr)
             THEN Ok(expr)
             ELSE Panic("Couldn't parse default expression")

\* options::should_forward_attr with the default forwarding list
should_forward_attr(a) == a \in {"allow", "cfg", "doc"}

\* FieldOptions::as_setter of the derive_builder crate
legacy_as_setter(self) ==
    Ok([enabled |-> self.setter_enabled,
        try_setter |-> self.try_setter,
        visibility |-> self.setter_visibility,
        pattern |-> self.builder_pattern,
        attrs |-> SelectSeq(self.attrs, should_forward_attr),
        ident |-> self.setter_ident,
        field_ident |-> self.field_ident,
        field_type |-> self.field_type,
        generic_into |-> self.setter_into,
        deprecation_notes |-> self.deprecation_notes,
        bindings |-> self.bindings])

\* FieldOptions::as_initializer of the derive_builder crate
legacy_as_initializer(self) ==
    LET d == IF IsNone(self.default_expression) THEN Ok(None)
             ELSE LET b == legacy_parse_block(Unwrap(self.default_expression),
                                              self.bindings.no_std)
                  IN  IF b.ok THEN Ok(Some(b.val)) ELSE b
    IN  IF ~d.ok THEN d
        ELSE Ok([setter_enabled |-> self.setter_enabled,
                 field_ident |-> self.field_ident,
                 builder_pattern |-> self.builder_pattern,
                 default_value |-> d.val,
                 use_default_struct |-> self.use_default_struct,
                 bindings |-> self.bindings])

\* FieldOptions::as_builder_field of the derive_builder crate
legacy_as_builder_field(self) ==
    Ok([field_ident |-> self.field_ident,
        field_type |-> self.field_type,
        setter_enabled |-> self.setter_enabled,
        field_visibility |-> self.field_visibility,
        attrs |-> self.attrs,
        bindings |-> self.bindings])

-----------------------------------------------------------------------------
(* The generated builder: what the emitted setters and build method do *)

\* Default::default() of a field type
TypeDefault(ty) == IF ty = "u8" THEN 0 ELSE ""

\* impl Default for Lorem
LoremDefault == [foo |-> 10, bar |-> ""]

\* A well-formed explicit default text for a field of type ty, and its value
FieldDefaultText(ty) == IF ty = "u8" THEN "42" ELSE "\"hi\".to_string()"
FieldDefaultTextValue(ty) == IF ty = "u8" THEN 42 ELSE "hi"

\* A well-formed explicit struct-level default text, and its value
StructDefaultText == "Lorem { foo: 7, bar: String::new() }"
StructDefaultTextValue == [foo |-> 7, bar |-> ""]

\* The value a field's default block evaluates to in the generated build method
EvalFieldBlock(block, ty) ==
    IF block = ExportDefaultPath THEN TypeDefault(ty) ELSE FieldDefaultTextValue(ty)

\* The instance the struct-level default block evaluates to
EvalStructBlock(block) ==
    IF block = ExportDefaultPath THEN LoremDefault ELSE StructDefaultTextValue

\* Values a caller may hand to the setter of a field of type ty
SetterValues(ty) == IF ty = "u8" THEN {1, 2} ELSE {"hello"}

\* The error of the validation function, when it rejects the builder
ValidationError == "invalid"

\* Result<T, String>
Err(e) == [ok |-> FALSE, err |-> e]
MissingField(field_ident) == [kind |-> "UninitializedField", field |-> field_ident]

\* Initializer: the expression that produces one field of the target struct
InitializerValue(init, ty, slot, default_struct) ==
    IF IsSome(slot) THEN Ok(Unwrap(slot))
    ELSE IF IsSome(init.default_value)
         THEN Ok(EvalFieldBlock(Unwrap(init.default_value), ty))
    ELSE IF init.use_default_struct
         THEN Ok(EvalStructBlock(Unwrap(default_struct))[init.field_ident])
    ELSE Err(MissingField(init.field_ident))

\* BuildMethod: validation first, then every initializer in declaration order;
\* the first failing one is the error returned.
BuildOutcome(bf, fields, sl, verdict) ==
    LET n == Len(bf.initializers)
        inits == [i \in 1..n |->
                    InitializerValue(bf.initializers[i], fields[i].ty,
                                     sl[bf.initializers[i].field_ident], bf.default_struct)]
        failed == {i \in 1..n : ~inits[i].ok}
        first == CHOOSE i \in failed : \A j \in failed : i <= j
    IN  [slots |-> sl,
         validated |-> IsSome(bf.validate_fn),
         inits |-> IF verdict = "rejected" THEN <<>> ELSE inits,
         out |-> IF verdict = "rejected" THEN Err([kind |-> "ValidationError", msg |-> ValidationError])
                 ELSE IF failed # {} THEN inits[first]
                 ELSE Ok([f \in {bf.initializers[i].field_ident : i \in 1..n} |->
                            LET i == CHOOSE k \in 1..n : bf.initializers[k].field_ident = f
                            IN  inits[i].val])]

\* What the configured validation function may answer
Verdicts(bf) == IF IsSome(bf.validate_fn) THEN {"accepted", "rejected"} ELSE {"none"}

-----------------------------------------------------------------------------
(* The declarations the expansion is run on *)

\* No #[builder(...)] option written on the struct / on a field
NoStructAttrs ==
    [pattern |-> None, name |-> None, build_fn |-> None, setter |-> None,
     try_setter |-> None, default |-> None, public |-> FALSE, private |-> FALSE,
     field |-> None, no_std |-> FALSE]
NoFieldAttrs ==
    [setter |-> None, try_setter |-> None, default |-> None, pattern |-> None,
     field |-> None, private |-> FALSE, public |-> FALSE]

\* struct Lorem { foo: u8, bar: String }
FieldTypes == [foo |-> "u8", bar |-> "String"]
FieldIdents == <<"foo", "bar">>
PlainField(id) ==
    [ident |-> id, ty |-> FieldTypes[id], vis |-> VIS_INHERITED, attrs |-> <<>>,
     builder |-> NoFieldAttrs]
PlainStruct ==
    [ident |-> "Lorem", vis |-> VIS_INHERITED, body |-> "Struct", attrs |-> NoStructAttrs,
     fields |-> <<PlainField("foo"), PlainField("bar")>>]

\* Written forms of the options
OptBool == {None, Some(TRUE), Some(FALSE)}
Markers == [public : BOOLEAN, private : BOOLEAN]
FieldItems == {None} \cup {Some(m) : m \in Markers}
SeqsUpTo(S, n) == UNION {[1..k -> S] : k \in 0..n}
AttrNames == {"allow", "cfg", "doc", "serde"}

StructDefaults ==
    {None, Some(Trait), Some(Explicit("")), Some(Explicit("42 +")),
     Some(Explicit(StructDefaultText))}
FieldDefaults(ty) ==
    {None, Some(Trait), Some(Explicit("")), Some(Explicit("42 +")),
     Some(Explicit(FieldDefaultText(ty)))}
BuildFns ==
    {None,
     Some([skip |-> FALSE, name |-> "build", validate |-> Some("Lorem::validate")]),
     Some([skip |-> TRUE, name |-> "build", validate |-> None])}
StructSetters ==
    {None} \cup
    {Some([prefix |-> p, into |-> i, skip |-> k, private |-> FALSE, public |-> FALSE]) :
        p \in {None, Some("with")}, i \in BOOLEAN, k \in BOOLEAN}
StructSetterMarkers ==
    {None} \cup
    {Some([prefix |-> None, into |-> FALSE, skip |-> FALSE,
           private |-> m.private, public |-> m.public]) : m \in Markers}
InheritSetter == [tag |-> "Inherit"]
ExplicitSetter(v) == [tag |-> "Explicit", val |-> v]
FieldSetters ==
    {None, Some(InheritSetter)} \cup
    {Some(ExplicitSetter([name |-> n, prefix |-> p, skip |-> k, into |-> i])) :
        n \in {None, Some("baz")}, p \in {None, Some("set")}, k \in OptBool, i \in OptBool}
SkipSetter == ExplicitSetter([DefaultSetterOptions EXCEPT !.skip = Some(TRUE)])

\* The field lists <<foo, bar>> in which one field ranges over its full set of
\* written forms while the other ranges over a few of them, in both positions.
FieldLists(fullFoo, fewFoo, fullBar, fewBar) ==
    {<<x, y>> : x \in fullFoo, y \in fewBar} \cup
    {<<x, y>> : x \in fewFoo, y \in fullBar}

\* Declarations that vary the default expressions, setter(skip), no_std and build_fn
DefaultFields(id) ==
    {[PlainField(id) EXCEPT !.builder.default = d, !.builder.setter = k] :
        d \in FieldDefaults(FieldTypes[id]), k \in {None, Some(SkipSetter)}}
FewDefaultFields(id) ==
    {[PlainField(id) EXCEPT !.builder.default = d, !.builder.setter = k] :
        d \in {None, Some(Trait)}, k \in {None, Some(SkipSetter)}}
DefaultDecls ==
    {[PlainStruct EXCEPT !.attrs.default = d, !.attrs.no_std = n, !.attrs.build_fn = b,
                         !.fields = fs] :
        d \in StructDefaults, n \in BOOLEAN, b \in BuildFns,
        fs \in
            FieldLists(DefaultFields("foo"), FewDefaultFields("foo"),
                       DefaultFields("bar"), FewDefaultFields("bar"))}

\* Declarations that vary the setter(...) blocks
SetterFields(id) == {[PlainField(id) EXCEPT !.builder.setter = k] : k \in FieldSetters}
FewSetterFields(id) ==
    {[PlainField(id) EXCEPT !.builder.setter = k] : k \in {None, Some(InheritSetter)}}
SetterDecls ==
    {[PlainStruct EXCEPT !.attrs.setter = k, !.fields = fs] :
        k \in StructSetters, fs \in
            FieldLists(SetterFields("foo"), FewSetterFields("foo"),
                       SetterFields("bar"), FewSetterFields("bar"))}

\* Declarations that vary try_setter, pattern and no_std
InheritFields(id) ==
    {[PlainField(id) EXCEPT !.builder.try_setter = t, !.builder.pattern = p] :
        t \in OptBool, p \in {None} \cup {Some(q) : q \in BuilderPatterns}}
FewInheritFields(id) == {PlainField(id)}
InheritDecls ==
    {[PlainStruct EXCEPT !.attrs.try_setter = t, !.attrs.pattern = p, !.attrs.no_std = n,
                         !.fields = fs] :
        t \in OptBool, p \in {None} \cup {Some(q) : q \in BuilderPatterns}, n \in BOOLEAN,
        fs \in
            FieldLists(InheritFields("foo"), FewInheritFields("foo"),
                       InheritFields("bar"), FewInheritFields("bar"))}

\* Declarations that vary the visibility options
VisFields(id) ==
    {[PlainField(id) EXCEPT !.vis = v, !.builder.public = m.public,
                            !.builder.private = m.private, !.builder.field = f] :
        v \in Visibilities, m \in Markers, f \in FieldItems}
FewVisFields(id) == {PlainField(id), [PlainField(id) EXCEPT !.vis = VIS_PUBLIC]}
VisDecls ==
    {[PlainStruct EXCEPT !.vis = v, !.attrs.public = m.public, !.attrs.private = m.private,
                         !.attrs.field = f, !.attrs.setter = k] :
        v \in Visibilities, m \in Markers, f \in FieldItems, k \in StructSetterMarkers}
    \cup {[PlainStruct EXCEPT !.fields = fs] : fs \in
        FieldLists(VisFields("foo"), FewVisFields("foo"),
                   VisFields("bar"), FewVisFields("bar"))}

\* Declarations that vary the attributes written on the fields
AttrFields(id) == {[PlainField(id) EXCEPT !.attrs = a] : a \in SeqsUpTo(AttrNames, MaxAttrs)}
FewAttrFields(id) == {PlainField(id), [PlainField(id) EXCEPT !.attrs = <<"doc">>]}
AttrDecls == {[PlainStruct EXCEPT !.fields = fs] : fs \in
    FieldLists(AttrFields("foo"), FewAttrFields("foo"),
               AttrFields("bar"), FewAttrFields("bar"))}

\* Declarations that are not braced structs
OtherDecls == {[PlainStruct EXCEPT !.body = "Enum", !.fields = <<>>]}

Decls == DefaultDecls \cup SetterDecls \cup InheritDecls \cup VisDecls \cup AttrDecls
         \cup OtherDecls

\* The older FieldOptions records the projections are applied to (the record of
\* tests::forwarding, with its attributes, default, bindings and setter_enabled varied)
LegacyOptions ==
    {[setter_enabled |-> e,
      builder_pattern |-> DefaultPattern,
      setter_ident |-> "Foo",
      setter_visibility |-> VIS_PUBLIC,
      field_visibility |-> VIS_PUBLIC,
      default_expression |-> d,
      use_default_struct |-> FALSE,
      field_ident |-> "bar",
      field_type |-> "String",
      setter_into |-> TRUE,
      deprecation_notes |-> <<>>,
      attrs |-> a,
      bindings |-> [no_std |-> n],
      try_setter |-> FALSE] :
        e \in BOOLEAN, d \in FieldDefaults("String"), a \in SeqsUpTo(AttrNames, MaxAttrs),
        n \in BOOLEAN}

-----------------------------------------------------------------------------
(* lib.rs: builder_for_struct, statement by statement *)

\* No older FieldOptions under study: the run is an expansion of the macro crate
NoLegacy == None
\* An older FieldOptions record before any projection was taken
LegacyStart(o) == Some([opts |-> o, setter |-> None, field |-> None, init |-> None])

Init ==
    /\ \/ ast \in Decls /\ pc = "from_derive_input" /\ legacy = NoLegacy
       \/ ast = PlainStruct /\ pc = "legacy" /\ legacy \in {LegacyStart(o) : o \in LegacyOptions}
    /\ s_level = None
    /\ builder = None
    /\ build_fn = None
    /\ idx = 0
    /\ f_level = None
    /\ fatal = None
    /\ slots = [id \in {"foo", "bar"} |-> None]
    /\ calls = 0
    /\ result = None

\* A panic aborts the expansion.
Abort(r) ==
    /\ pc' = "panicked"
    /\ fatal' = Some(r.msg)

\* let s_level = options::StructOptions::from_derive_input(&ast).unwrap();
FromDeriveInput ==
    /\ pc = "from_derive_input"
    /\ LET r == StructFromDeriveInput(ast)
       IN  IF r.ok
           THEN /\ s_level' = Some(r.val)
                /\ pc' = "match_body"
                /\ UNCHANGED fatal
           ELSE /\ Abort(r)
                /\ UNCHANGED s_level
    /\ UNCHANGED <<ast, builder, build_fn, idx, f_level, slots, calls, result, legacy>>

\* let fields = match ast.body { ... }
MatchBody ==
    /\ pc = "match_body"
    /\ IF ast.body = "Struct"
       THEN pc' = "as_builder" /\ UNCHANGED fatal
       ELSE Abort(Panic("derive(Builder) can only be used with braced structs"))
    /\ UNCHANGED <<ast, s_level, builder, build_fn, idx, f_level, slots, calls, result, legacy>>

\* let mut builder = s_level.as_builder();
AsBuilder ==
    /\ pc = "as_builder"
    /\ LET r == as_builder(Unwrap(s_level))
       IN  IF r.ok
           THEN /\ builder' = Some(r.val)
                /\ pc' = "as_build_method"
                /\ UNCHANGED fatal
           ELSE /\ Abort(r)
                /\ UNCHANGED builder
    /\ UNCHANGED <<ast, s_level, build_fn, idx, f_level, slots, calls, result, legacy>>

\* let mut build_fn = s_level.as_build_method();
AsBuildMethod ==
    /\ pc = "as_build_method"
    /\ LET r == as_build_method(Unwrap(s_level))
       IN  IF r.ok
           THEN /\ build_fn' = Some(r.val)
                /\ pc' = "for_fields"
                /\ UNCHANGED fatal
           ELSE /\ Abort(r)
                /\ UNCHANGED build_fn
    /\ UNCHANGED <<ast, s_level, builder, idx, f_level, slots, calls, result, legacy>>

\* for f in fields { let mut f_level = options::FieldOptions::from_field(&f).unwrap();
FromField ==
    /\ pc = "for_fields"
    /\ idx < Len(ast.fields)
    /\ LET r == FieldFromField(ast.fields[idx + 1])
       IN  IF r.ok
           THEN /\ f_level' = Some(r.val)
                /\ pc' = "with_defaults"
                /\ UNCHANGED fatal
           ELSE /\ Abort(r)
                /\ UNCHANGED f_level
    /\ UNCHANGED <<ast, s_level, builder, build_fn, idx, slots, calls, result, legacy>>

\* the loop body with the inheritance step left out
WithDefaults_Skipped ==
    /\ pc = "with_defaults"
    /\ pc' = "push_field"
    /\ UNCHANGED <<ast, s_level, builder, build_fn, idx, f_level, fatal, slots, calls, result,
                   legacy>>

\* f_level.with_defaults(&s_level);
WithDefaults ==
    /\ pc = "with_defaults"
    /\ f_level' = Some(with_defaults(Unwrap(f_level), Unwrap(s_level)))
    /\ pc' = "push_field"
    /\ UNCHANGED <<ast, s_level, builder, build_fn, idx, fatal, slots, calls, result, legacy>>

\* builder.push_field(f_level.as_builder_field());
PushField ==
    /\ pc = "push_field"
    /\ LET r == as_builder_field(Unwrap(f_level))
           b == Unwrap(builder)
       IN  builder' = Some([b EXCEPT !.fields = Append(b.fields, r.val)])
    /\ pc' = "push_setter_fn"
    /\ UNCHANGED <<ast, s_level, build_fn, idx, f_level, fatal, slots, calls, result, legacy>>

\* builder.push_setter_fn(f_level.as_setter());
PushSetterFn ==
    /\ pc = "push_setter_fn"
    /\ LET r == as_setter(Unwrap(f_level))
           b == Unwrap(builder)
       IN  IF r.ok
           THEN /\ builder' = Some([b EXCEPT !.functions = Append(b.functions, r.val)])
                /\ pc' = "push_initializer"
                /\ UNCHANGED fatal
           ELSE /\ Abort(r)
                /\ UNCHANGED builder
    /\ UNCHANGED <<ast, s_level, build_fn, idx, f_level, slots, calls, result, legacy>>

\* build_fn.push_initializer(f_level.as_initializer()); }
PushInitializer ==
    /\ pc = "push_initializer"
    /\ LET r == as_initializer(Unwrap(f_level))
           m == Unwrap(build_fn)
       IN  IF r.ok
           THEN /\ build_fn' = Some([m EXCEPT !.initializers = Append(m.initializers, r.val)])
                /\ idx' = idx + 1
                /\ f_level' = None
                /\ pc' = "for_fields"
                /\ UNCHANGED fatal
           ELSE /\ Abort(r)
                /\ UNCHANGED <<build_fn, idx, f_level>>
    /\ UNCHANGED <<ast, s_level, builder, slots, calls, result, legacy>>

\* builder.doc_comment(...); build_fn.doc_comment(...);
DocComments ==
    /\ pc = "for_fields"
    /\ idx = Len(ast.fields)
    /\ builder' = Some([Unwrap(builder) EXCEPT !.doc_comment = Some("builder_struct.md")])
    /\ build_fn' = Some([Unwrap(build_fn) EXCEPT !.doc_comment = Some("builder_method.md")])
    /\ pc' = "push_build_fn"
    /\ UNCHANGED <<ast, s_level, idx, f_level, fatal, slots, calls, result, legacy>>

\* builder.push_build_fn(build_fn); quote!(#builder)
PushBuildFn ==
    /\ pc = "push_build_fn"
    /\ builder' = Some([Unwrap(builder) EXCEPT !.build_fn = build_fn])
    /\ pc' = "expanded"
    /\ UNCHANGED <<ast, s_level, build_fn, idx, f_level, fatal, slots, calls, result, legacy>>

-----------------------------------------------------------------------------
(* The generated builder at run time *)

\* LoremBuilder::<setter>(value): stores the value in the field's slot
CallSetter ==
    /\ pc = "expanded"
    /\ calls < MaxSetterCalls
    /\ \E i \in 1..Len(Unwrap(builder).functions) :
         LET st == Unwrap(builder).functions[i]
         IN  /\ st.enabled
             /\ \E v \in SetterValues(st.field_type) :
                  slots' = [slots EXCEPT ![st.field_ident] = Some(v)]
    /\ calls' = calls + 1
    /\ UNCHANGED <<ast, pc, s_level, builder, build_fn, idx, f_level, fatal, result, legacy>>

\* LoremBuilder::build()
Build ==
    /\ pc = "expanded"
    /\ LET bf == Unwrap(Unwrap(builder).build_fn)
       IN  /\ bf.enabled
           /\ \E verdict \in Verdicts(bf) :
                result' = Some(BuildOutcome(bf, ast.fields, slots, verdict))
    /\ UNCHANGED <<ast, pc, s_level, builder, build_fn, idx, f_level, fatal, slots, calls, legacy>>

-----------------------------------------------------------------------------
(* The projections of the older FieldOptions *)

LegacyAsSetter ==
    /\ pc = "legacy"
    /\ IsNone(Unwrap(legacy).setter)
    /\ legacy' = Some([Unwrap(legacy) EXCEPT !.setter = Some(legacy_as_setter(Unwrap(legacy).opts))])
    /\ UNCHANGED <<ast, pc, s_level, builder, build_fn, idx, f_level, fatal, slots, calls, result>>

LegacyAsBuilderField ==
    /\ pc = "legacy"
    /\ IsNone(Unwrap(legacy).field)
    /\ legacy' = Some([Unwrap(legacy) EXCEPT
                         !.field = Some(legacy_as_builder_field(Unwrap(legacy).opts))])
    /\ UNCHANGED <<ast, pc, s_level, builder, build_fn, idx, f_level, fatal, slots, calls, result>>

LegacyAsInitializer ==
    /\ pc = "legacy"
    /\ IsNone(Unwrap(legacy).init)
    /\ legacy' = Some([Unwrap(legacy) EXCEPT
                         !.init = Some(legacy_as_initializer(Unwrap(legacy).opts))])
    /\ UNCHANGED <<ast, pc, s_level, builder, build_fn, idx, f_level, fatal, slots, calls, result>>

Next ==
    \/ LegacyAsSetter
    \/ LegacyAsBuilderField
    \/ LegacyAsInitializer
    \/ FromDeriveInput
    \/ MatchBody
    \/ AsBuilder
    \/ AsBuildMethod
    \/ FromField
    \/ WithDefaults
    \/ PushField
    \/ PushSetterFn
    \/ PushInitializer
    \/ DocComments
    \/ PushBuildFn
    \/ CallSetter
    \/ Build

Spec == Init /\ [][Next]_vars

-----------------------------------------------------------------------------
(* What the written annotations say, read off the declaration itself *)

\* The last build call, when its validation (if any) let it through
BuildRan ==
    /\ IsSome(result)
    /\ Unwrap(result).out.ok \/ Unwrap(result).out.err.kind # "ValidationError"

\* The value a written field default denotes for a field of type ty
WrittenFieldDefault(d, ty) ==
    IF d.tag = "Trait" THEN TypeDefault(ty) ELSE FieldDefaultTextValue(ty)

\* The instance a written struct-level default denotes
WrittenStructDefault(d) ==
    IF d.tag = "Trait" THEN LoremDefault ELSE StructDefaultTextValue

\* The cascade of the build operation for the declared field f, given its slot
Cascade(f, slot) ==
    IF IsSome(slot) THEN Ok(Unwrap(slot))
    ELSE IF IsSome(f.builder.default)
         THEN Ok(WrittenFieldDefault(Unwrap(f.builder.default), f.ty))
    ELSE IF IsSome(ast.attrs.default)
         THEN Ok(WrittenStructDefault(Unwrap(ast.attrs.default))[f.ident])
    ELSE Err(MissingField(f.ident))

\* The field is written with setter(skip) / setter(skip = true)
WrittenSkip(f) ==
    /\ IsSome(f.builder.setter)
    /\ Unwrap(f.builder.setter).tag = "Explicit"
    /\ Unwrap(f.builder.setter).val.skip = Some(TRUE)

-----------------------------------------------------------------------------
(* Claims *)

\* C1: whenever build has run, every field's initializer produced the stored
\* value if one was supplied, else the field's own default, else the field of the
\* struct-level default instance if the struct declares one, else the
\* missing-field error naming that field; build returns the error of the first
\* field whose cascade ends in the error, and the assembled struct otherwise.
C1_BuildCascade ==
    BuildRan =>
        LET r == Unwrap(result)
            n == Len(ast.fields)
            missing == {i \in 1..n : ~Cascade(ast.fields[i], r.slots[ast.fields[i].ident]).ok}
        IN  /\ Len(r.inits) = n
            /\ \A i \in 1..n :
                 r.inits[i] = Cascade(ast.fields[i], r.slots[ast.fields[i].ident])
            /\ r.out.ok <=> missing = {}
            /\ \A i \in missing :
                 (\A j \in missing : i <= j) => r.out = Err(MissingField(ast.fields[i].ident))
            /\ r.out.ok =>
                 \A i \in 1..n :
                    r.out.val[ast.fields[i].ident]
                        = Cascade(ast.fields[i], r.slots[ast.fields[i].ident]).val

\* C1 witness: foo was set to 2, bar has no default of any kind and was never
\* set; build returned the missing-field error naming bar.
C1_Witness ==
    /\ BuildRan
    /\ Unwrap(result).slots["foo"] = Some(2)
    /\ Unwrap(result).inits[1] = Ok(2)
    /\ IsNone(ast.fields[2].builder.default)
    /\ IsNone(ast.attrs.default)
    /\ Unwrap(result).out = Err(MissingField("bar"))

\* C2: a field written with setter(skip) and no default of its own, in a struct
\* that declares a struct-level default, is built to that field of the struct's
\* default instance, whatever the other fields hold; never a missing-field error.
C2_SkippedFieldGetsStructDefault ==
    BuildRan =>
        \A i \in 1..Len(ast.fields) :
            LET f == ast.fields[i]
            IN  (WrittenSkip(f) /\ IsNone(f.builder.default) /\ IsSome(ast.attrs.default)) =>
                    /\ Unwrap(result).out.ok
                    /\ Unwrap(result).out.val[f.ident]
                         = WrittenStructDefault(Unwrap(ast.attrs.default))[f.ident]

\* C2 witness: the test skipped_field_gets_struct_default: #[builder(default)]
\* on Lorem, setter(skip) on foo, bar set to "hello"; build gives foo 10, bar "hello".
C2_Witness ==
    /\ ast.attrs.default = Some(Trait)
    /\ WrittenSkip(ast.fields[1])
    /\ IsNone(ast.fields[1].builder.default)
    /\ IsSome(result)
    /\ Unwrap(result).out = Ok([foo |-> 10, bar |-> "hello"])

\* The name, prefix, skip and into written in the field's own setter(...) block
WrittenSetter(f) ==
    IF IsSome(f.builder.setter) /\ Unwrap(f.builder.setter).tag = "Explicit"
    THEN Unwrap(f.builder.setter).val
    ELSE [name |-> None, prefix |-> None, skip |-> None, into |-> None]

\* The prefix written in the struct's setter(...) block
WrittenStructPrefix == IF IsSome(ast.attrs.setter) THEN Unwrap(ast.attrs.setter).prefix ELSE None

\* The setter name by the priority order: explicit name, local prefix, struct
\* prefix, bare identifier
NameByPriority(f) ==
    LET w == WrittenSetter(f)
    IN  IF IsSome(w.name) THEN Unwrap(w.name)
        ELSE IF IsSome(w.prefix) THEN Unwrap(w.prefix) \o "_" \o f.ident
        ELSE IF IsSome(WrittenStructPrefix) THEN Unwrap(WrittenStructPrefix) \o "_" \o f.ident
        ELSE f.ident

\* The fields whose descriptors the loop has pushed so far
Pushed(descriptors) == 1..Len(descriptors)
AfterInheritance == pc \in {"push_field", "push_setter_fn", "push_initializer"}

\* C3: after inheritance the setter name of every field, as resolved by
\* setter_name and as carried by the setter descriptor, is the explicit local
\* name, else local prefix _ identifier, else struct prefix _ identifier, else
\* the bare identifier.
C3_SetterNamePriority ==
    /\ AfterInheritance => setter_name(Unwrap(f_level)) = NameByPriority(ast.fields[idx + 1])
    /\ IsSome(builder) =>
         \A i \in Pushed(Unwrap(builder).functions) :
            Unwrap(builder).functions[i].ident = NameByPriority(ast.fields[i])

\* C3 witness: foo carries setter(prefix = "set") under a struct-level
\* setter(prefix = "with"), no explicit name; its setter is named set_foo.
C3_Witness ==
    /\ IsSome(builder)
    /\ Len(Unwrap(builder).functions) >= 1
    /\ WrittenSetter(ast.fields[1]).prefix = Some("set")
    /\ IsNone(WrittenSetter(ast.fields[1]).name)
    /\ WrittenStructPrefix = Some("with")
    /\ Unwrap(builder).functions[1].ident = "set_foo"

\* The outcome the reconciler's contract gives for a pair of written markers
Reconciled(m) ==
    IF m.public /\ ~m.private THEN Some(VIS_PUBLIC)
    ELSE IF ~m.public /\ m.private THEN Some(VIS_INHERITED)
    ELSE None
Contradictory(m) == m.public /\ m.private
ContradictionMessage == "A field cannot be both private and public"

\* C4: wherever the expansion applies to_visibility (the field(...) item of the
\* struct and of each field at parse time, the struct's own markers in
\* as_builder, each field's own markers in as_setter) and for the struct-level
\* setter options, the result is explicit public for public alone, explicit
\* private (inherited) for private alone, no override for neither, and a fatal
\* error for both: no resolved option or descriptor exists for a contradictory
\* source, and the contradiction error is raised only by a contradictory source.
C4_LegacyVisibility ==
    /\ IsSome(s_level) =>
         /\ IsSome(ast.attrs.field) =>
              /\ ~Contradictory(Unwrap(ast.attrs.field))
              /\ Unwrap(s_level).field = Reconciled(Unwrap(ast.attrs.field))
         /\ IsNone(ast.attrs.field) => IsNone(Unwrap(s_level).field)
         /\ IsSome(Unwrap(s_level).setter) =>
              LET so == Unwrap(s_level).setter[1]
                  m == Unwrap(ast.attrs.setter)
                  r == to_visibility(declared_public(so), declared_private(so))
              IN  IF Contradictory(m) THEN r = Panic(ContradictionMessage)
                  ELSE r = Ok(Reconciled(m))
    /\ IsSome(builder) =>
         /\ ~Contradictory(ast.attrs)
         /\ Unwrap(builder).visibility = UnwrapOr(Reconciled(ast.attrs), ast.vis)
         /\ \A i \in Pushed(Unwrap(builder).fields) :
              LET w == ast.fields[i].builder
              IN  IsSome(w.field) => ~Contradictory(Unwrap(w.field))
         /\ \A i \in Pushed(Unwrap(builder).functions) :
              LET w == ast.fields[i].builder
              IN  /\ ~Contradictory(w)
                  /\ Unwrap(builder).functions[i].visibility
                       = UnwrapOr(Reconciled(w), ast.fields[i].vis)
    /\ IsSome(f_level) =>
         LET w == ast.fields[idx + 1].builder
         IN  /\ IsSome(w.field) =>
                  /\ ~Contradictory(Unwrap(w.field))
                  /\ Unwrap(f_level).field = Reconciled(Unwrap(w.field))
             /\ IsNone(w.field) => IsNone(Unwrap(f_level).field)
    /\ fatal = Some(ContradictionMessage) =>
         \/ IsNone(s_level) /\ IsSome(ast.attrs.field) /\ Contradictory(Unwrap(ast.attrs.field))
         \/ IsSome(s_level) /\ IsNone(builder) /\ Contradictory(ast.attrs)
         \/ /\ IsSome(builder) /\ IsNone(f_level)
            /\ IsSome(ast.fields[idx + 1].builder.field)
            /\ Contradictory(Unwrap(ast.fields[idx + 1].builder.field))
         \/ IsSome(f_level) /\ Contradictory(ast.fields[idx + 1].builder)

\* C4 witness: the second field is written with both public and private; the
\* expansion got as far as that field's as_setter and aborted there with the
\* contradiction error, after the first field's setter was produced.
C4_Witness ==
    /\ pc = "panicked"
    /\ fatal = Some(ContradictionMessage)
    /\ IsSome(f_level)
    /\ idx = 1
    /\ Contradictory(ast.fields[2].builder)
    /\ Len(Unwrap(builder).functions) = 1

\* The visibility written in a field(...) item, if any
WrittenFieldItem(w) == IF IsSome(w.field) THEN Reconciled(Unwrap(w.field)) ELSE None

\* Legacy marker, else field(...) override, else the declared visibility
ThreeLevelVisibility(w, declared) ==
    UnwrapOr(Reconciled(w), UnwrapOr(WrittenFieldItem(w), declared))

\* C5 as stated: the builder type's visibility is the legacy marker, else the
\* field(public|private) override, else the declaration's own visibility.
C5_Original ==
    IsSome(builder) =>
        Unwrap(builder).visibility = ThreeLevelVisibility(ast.attrs, ast.vis)

\* C5 amended: the builder type's visibility is the legacy public/private marker
\* if present, otherwise the declaration's own visibility; the field(...)
\* override plays no part in it.
C5_BuilderVisibility ==
    IsSome(builder) =>
        Unwrap(builder).visibility = UnwrapOr(Reconciled(ast.attrs), ast.vis)

\* C5 witness: a private struct with field(public) and no legacy marker; the
\* builder skeleton exists and its visibility is the struct's own (inherited).
C5_Witness ==
    /\ IsSome(builder)
    /\ ast.vis = VIS_INHERITED
    /\ ~ast.attrs.public /\ ~ast.attrs.private
    /\ WrittenFieldItem(ast.attrs) = Some(VIS_PUBLIC)
    /\ Unwrap(s_level).field = Some(VIS_PUBLIC)
    /\ Unwrap(builder).visibility = VIS_INHERITED

\* C6 as stated: the builder-field descriptor and the setter descriptor of a
\* field both carry the visibility given by legacy marker, else field(...)
\* override, else declared visibility, hence the same one.
C6_Original ==
    IsSome(builder) =>
        \A i \in Pushed(Unwrap(builder).functions) :
            LET f == ast.fields[i]
            IN  /\ Unwrap(builder).fields[i].field_visibility
                     = ThreeLevelVisibility(f.builder, f.vis)
                /\ Unwrap(builder).functions[i].visibility
                     = ThreeLevelVisibility(f.builder, f.vis)

\* C6 amended: the builder-field descriptor carries the field(public|private)
\* override if present and otherwise the field's declared visibility (the legacy
\* markers play no part); the setter descriptor carries the legacy
\* public/private marker if present and otherwise the field's declared
\* visibility (the field(...) override plays no part).
C6_DescriptorVisibility ==
    IsSome(builder) =>
        /\ \A i \in Pushed(Unwrap(builder).fields) :
             LET f == ast.fields[i]
             IN  Unwrap(builder).fields[i].field_visibility
                   = UnwrapOr(WrittenFieldItem(f.builder), f.vis)
        /\ \A i \in Pushed(Unwrap(builder).functions) :
             LET f == ast.fields[i]
             IN  Unwrap(builder).functions[i].visibility
                   = UnwrapOr(Reconciled(f.builder), f.vis)

\* C6 witness: foo is declared private with field(public) and no legacy marker;
\* its builder field is public while its setter is private.
C6_Witness ==
    /\ IsSome(builder)
    /\ Len(Unwrap(builder).functions) >= 1
    /\ ast.fields[1].vis = VIS_INHERITED
    /\ WrittenFieldItem(ast.fields[1].builder) = Some(VIS_PUBLIC)
    /\ IsNone(Reconciled(ast.fields[1].builder))
    /\ Unwrap(builder).fields[1].field_visibility = VIS_PUBLIC
    /\ Unwrap(builder).functions[1].visibility = VIS_INHERITED

\* The struct's setter(...) block says skip
WrittenStructSkip == IsSome(ast.attrs.setter) /\ Unwrap(ast.attrs.setter).skip

\* The setter-generation flag of field i in each descriptor pushed so far
EnabledFlags(i) ==
    {Unwrap(builder).fields[j].setter_enabled : j \in {i} \cap Pushed(Unwrap(builder).fields)}
    \cup {Unwrap(builder).functions[j].enabled : j \in {i} \cap Pushed(Unwrap(builder).functions)}
    \cup {Unwrap(build_fn).initializers[j].setter_enabled :
            j \in {i} \cap Pushed(Unwrap(build_fn).initializers)}

\* C7: a field with no setter(...) block of its own, under a struct whose setter
\* options say skip, has setter generation disabled in its builder-field,
\* setter and initializer descriptors.
C7_SkipInherited ==
    (IsSome(builder) /\ IsSome(build_fn)) =>
        \A i \in 1..Len(ast.fields) :
            (IsNone(ast.fields[i].builder.setter) /\ WrittenStructSkip) =>
                EnabledFlags(i) \subseteq {FALSE}

\* C8: a field that carries its own setter block (bare or with arguments) has
\* setter generation enabled in every descriptor unless that block sets skip to
\* true, and disabled if it does, whatever the struct-level setter options say.
C8_PresenceEnables ==
    (IsSome(builder) /\ IsSome(build_fn)) =>
        \A i \in 1..Len(ast.fields) :
            IsSome(ast.fields[i].builder.setter) =>
                EnabledFlags(i) \subseteq {~WrittenSkip(ast.fields[i])}

\* C8 witness: the struct says setter(skip), foo carries a bare `setter`; all
\* three descriptors of foo have been produced with setter generation enabled.
C8_Witness ==
    /\ IsSome(builder) /\ IsSome(build_fn)
    /\ WrittenStructSkip
    /\ ast.fields[1].builder.setter = Some(InheritSetter)
    /\ Len(Unwrap(build_fn).initializers) >= 1
    /\ EnabledFlags(1) = {TRUE}

EmptyDefaultMessage == "Empty default expressions are not supported."
ParseFailureMessage == "Couldn't parse default expression"

\* The outcome of resolving a written default d when the Trait sentinel stands
\* for the path traitPath: nothing for no default, the path for the sentinel,
\* the text itself for a non-empty text that parses, a fatal error otherwise
Resolved(d, traitPath) ==
    IF IsNone(d) THEN Ok(None)
    ELSE IF Unwrap(d).tag = "Trait" THEN Ok(Some(traitPath))
    ELSE IF Unwrap(d).text = "" THEN Panic(EmptyDefaultMessage)
    ELSE IF Unwrap(d).text \in UnparsableTexts THEN Panic(ParseFailureMessage)
    ELSE Ok(Some(Unwrap(d).text))

\* The path the claim gives the Trait sentinel under a bindings mode
PathByBindings(no_std) == IF no_std THEN CoreDefaultPath ELSE StdDefaultPath

\* The path the macro crate gives the Trait sentinel under either bindings mode
ExportPath(no_std) == ExportDefaultPath

\* The path the Trait sentinel stands for: chosen by the bindings mode, or the
\* export path under either mode
TraitPath(byBindings, no_std) ==
    IF byBindings THEN PathByBindings(no_std) ELSE ExportPath(no_std)

\* The projections of the expansion agree with Resolved under that path
ExpansionResolves(byBindings) ==
    /\ IsSome(build_fn) =>
         /\ Ok(Unwrap(build_fn).default_struct)
              = Resolved(ast.attrs.default, TraitPath(byBindings, ast.attrs.no_std))
         /\ \A i \in Pushed(Unwrap(build_fn).initializers) :
              Ok(Unwrap(build_fn).initializers[i].default_value)
                = Resolved(ast.fields[i].builder.default, TraitPath(byBindings, ast.attrs.no_std))
    /\ (pc = "panicked" /\ IsSome(builder) /\ IsNone(build_fn)) =>
         Panic(Unwrap(fatal)) = Resolved(ast.attrs.default, TraitPath(byBindings, ast.attrs.no_std))
    /\ (pc = "panicked" /\ IsSome(f_level) /\ Len(Unwrap(builder).functions) = idx + 1) =>
         Panic(Unwrap(fatal))
           = Resolved(ast.fields[idx + 1].builder.default, TraitPath(byBindings, ast.attrs.no_std))

\* The initializer projection of the older FieldOptions agrees with Resolved
LegacyResolves ==
    (IsSome(legacy) /\ IsSome(Unwrap(legacy).init)) =>
        LET o == Unwrap(legacy).opts
            r == Unwrap(Unwrap(legacy).init)
            e == Resolved(o.default_expression, PathByBindings(o.bindings.no_std))
        IN  IF e.ok THEN r.ok /\ r.val.default_value = e.val ELSE r = e

\* C9 as stated: in both resolvers the Trait sentinel yields the
\* standard-library path under standard bindings and the core path under no_std.
C9_Original == ExpansionResolves(TRUE) /\ LegacyResolves

\* C9 amended: an explicit empty text is a fatal error; an explicit non-empty
\* text yields that text when it parses as a block and is a fatal error when it
\* does not; the Trait sentinel yields the std path under standard bindings and
\* the core path under no_std in the resolver of the derive_builder crate, and
\* the single path ::derive_builder::export::Default::default() under either
\* bindings mode in the resolver of the macro crate, for field-level and
\* struct-level defaults alike.
C9_DefaultResolver == ExpansionResolves(FALSE) /\ LegacyResolves

\* C9 witness: a no_std struct with #[builder(default)] on the struct and on
\* foo; both resolved to the export path.
C9_Witness ==
    /\ IsSome(build_fn)
    /\ ast.attrs.no_std
    /\ Unwrap(build_fn).bindings = "NoStd"
    /\ ast.attrs.default = Some(Trait)
    /\ ast.fields[1].builder.default = Some(Trait)
    /\ Len(Unwrap(build_fn).initializers) >= 1
    /\ Unwrap(build_fn).default_struct = Some(ExportDefaultPath)
    /\ Unwrap(build_fn).initializers[1].default_value = Some(ExportDefaultPath)

\* The forwardable attributes of a written attribute list, in their order
Forwardable(attrs) == SelectSeq(attrs, LAMBDA a : a \in {"allow", "cfg", "doc"})

\* In the older FieldOptions the setter carries the forwardable attributes and
\* the builder field carries them all
LegacyForwards ==
    IsSome(legacy) =>
        /\ IsSome(Unwrap(legacy).setter) =>
             Unwrap(Unwrap(legacy).setter).val.attrs = Forwardable(Unwrap(legacy).opts.attrs)
        /\ IsSome(Unwrap(legacy).field) =>
             Unwrap(Unwrap(legacy).field).val.attrs = Unwrap(legacy).opts.attrs

\* The setter descriptors of the expansion carry the forwardable attributes
ExpansionSetterForwards ==
    IsSome(builder) =>
        \A i \in Pushed(Unwrap(builder).functions) :
            Unwrap(builder).functions[i].attrs = Forwardable(ast.fields[i].attrs)

\* C10 as stated: the setter descriptor carries only the forwardable attributes
\* and the builder-field descriptor carries all of the field's attributes.
C10_Original ==
    /\ LegacyForwards
    /\ ExpansionSetterForwards
    /\ IsSome(builder) =>
         \A i \in Pushed(Unwrap(builder).fields) :
            Unwrap(builder).fields[i].attrs = ast.fields[i].attrs

\* C10 amended: in the older FieldOptions the setter descriptor carries only the
\* forwardable attributes and the builder-field descriptor all attributes, in
\* their original order; in the expansion of the macro crate the other
\* attributes are dropped when the field is parsed, so the setter descriptor and
\* the builder-field descriptor both carry only the forwardable ones, in their
\* original order.
C10_ForwardedAttrs ==
    /\ LegacyForwards
    /\ ExpansionSetterForwards
    /\ IsSome(builder) =>
         \A i \in Pushed(Unwrap(builder).fields) :
            Unwrap(builder).fields[i].attrs = Forwardable(ast.fields[i].attrs)

\* C10 witness: foo is written with allow(...) and serde(...); its setter and
\* its builder field both carry allow alone.
C10_Witness ==
    /\ IsSome(builder)
    /\ Len(Unwrap(builder).functions) >= 1
    /\ ast.fields[1].attrs = <<"allow", "serde">>
    /\ Unwrap(builder).fields[1].attrs = <<"allow">>
    /\ Unwrap(builder).functions[1].attrs = <<"allow">>

\* The fully resolved options of the declared field i: parsed, then inherited
ResolvedField(i) == with_defaults(FieldFromField(ast.fields[i]).val, Unwrap(s_level))

\* The step appends a descriptor to the list that is before in this state and
\* after in the next
Appends(before, after) == Len(after) = Len(before) + 1

\* C11: the builder and build-method skeletons and every field's parsed options
\* appear only once the struct options are resolved; every step that appends a
\* builder-field, setter or initializer descriptor starts from the field's
\* options with the inheritance step applied and appends their projection; and
\* the build method attached to the builder holds every field's initializer.
C11_ResolvedBeforeSynthesis ==
    [][/\ (IsSome(builder') \/ IsSome(build_fn') \/ IsSome(f_level')) => IsSome(s_level)
       /\ (/\ IsSome(builder) /\ IsSome(builder')
           /\ Appends(Unwrap(builder).fields, Unwrap(builder').fields))
             => /\ f_level = Some(ResolvedField(idx + 1))
                /\ Unwrap(builder').fields[idx + 1]
                     = as_builder_field(ResolvedField(idx + 1)).val
       /\ (/\ IsSome(builder) /\ IsSome(builder')
           /\ Appends(Unwrap(builder).functions, Unwrap(builder').functions))
             => /\ f_level = Some(ResolvedField(idx + 1))
                /\ Unwrap(builder').functions[idx + 1]
                     = as_setter(ResolvedField(idx + 1)).val
       /\ (/\ IsSome(build_fn) /\ IsSome(build_fn')
           /\ Appends(Unwrap(build_fn).initializers, Unwrap(build_fn').initializers))
             => /\ f_level = Some(ResolvedField(idx + 1))
                /\ Unwrap(build_fn').initializers[idx + 1]
                     = as_initializer(ResolvedField(idx + 1)).val
       /\ (IsSome(builder') /\ IsSome(Unwrap(builder').build_fn))
             => /\ Len(Unwrap(Unwrap(builder').build_fn).initializers) = Len(ast.fields)
                /\ Len(Unwrap(builder').fields) = Len(ast.fields)
                /\ Len(Unwrap(builder').functions) = Len(ast.fields)
      ]_vars

\* C11 witness: the expansion of a two-field struct ran to its end; the build
\* method attached to the builder holds both initializers.
C11_Witness ==
    /\ pc = "expanded"
    /\ Len(ast.fields) = 2
    /\ IsSome(Unwrap(builder).build_fn)
    /\ Len(Unwrap(Unwrap(builder).build_fn).initializers) = 2

\* The validation path written in build_fn(validate = "path"), if any
WrittenValidate ==
    IF IsNone(ast.attrs.build_fn) THEN None ELSE Unwrap(ast.attrs.build_fn).validate

\* The build error is the failure of the validation function
IsValidationFailure(out) == ~out.ok /\ out.err.kind = "ValidationError"

\* C12: a call of the generated build runs the validation exactly when a
\* validation path is written; a rejection is returned verbatim as the build
\* error, before any initializer ran and with no value produced; with no path
\* written there is no validation step and no validation failure.
C12_ValidationFirst ==
    IsSome(result) =>
        LET r == Unwrap(result)
        IN  /\ r.validated <=> IsSome(WrittenValidate)
            /\ IsSome(WrittenValidate) =>
                  Unwrap(Unwrap(builder).build_fn).validate_fn = WrittenValidate
            /\ IsValidationFailure(r.out) =>
                  /\ r.validated
                  /\ r.out = Err([kind |-> "ValidationError", msg |-> ValidationError])
                  /\ r.inits = <<>>
            /\ r.out.ok => Len(r.inits) = Len(ast.fields)
            /\ IsNone(WrittenValidate) => ~IsValidationFailure(r.out)

\* C12 witness: with validate = "Lorem::validate" written and every field set,
\* a build call is rejected by the validation and returns its failure.
C12_Witness ==
    /\ WrittenValidate = Some("Lorem::validate")
    /\ IsSome(result)
    /\ \A id \in DOMAIN slots : IsSome(slots[id])
    /\ Unwrap(result).validated
    /\ IsValidationFailure(Unwrap(result).out)

\* The field carries an explicit setter(...) block and nothing else
OnlySetterBlockWritten(f) ==
    /\ IsSome(f.builder.setter)
    /\ Unwrap(f.builder.setter).tag = "Explicit"
    /\ f.builder = [NoFieldAttrs EXCEPT !.setter = f.builder.setter]
    /\ f.attrs = <<>>
    /\ f.vis = VIS_INHERITED

\* C13: right after from_field, before any inheritance, the options of a field
\* that carries only a setter(...) block equal the default FieldOptions of that
\* field with exactly the written setter options set and every other setter
\* option (skip included) unset.
C13_ParseRecordsOnlyWritten ==
    (pc = "with_defaults" /\ OnlySetterBlockWritten(ast.fields[idx + 1])) =>
        Unwrap(f_level) =
            [FieldOptionsFrom(ast.fields[idx + 1].ident, ast.fields[idx + 1].ty)
                EXCEPT !.setter = WrittenSetter(ast.fields[idx + 1])]

\* The local value if one was written, otherwise the inherited one
LocalElse(local, inherited) == IF IsSome(local) THEN local ELSE inherited

\* C14: after the inheritance step try_setter, pattern and setter.into of the
\* field being processed are the locally written value if there is one and the
\* struct-level value otherwise (setter.into stays unset when the struct has no
\* setter block, try_setter when the struct has none); the bindings mode is the
\* struct's, whatever the field held before.
C14_InheritanceKeepsLocal ==
    AfterInheritance =>
        LET f == ast.fields[idx + 1]
            o == Unwrap(f_level)
            s == Unwrap(s_level)
        IN  /\ o.try_setter = LocalElse(f.builder.try_setter, ast.attrs.try_setter)
            /\ o.pattern = LocalElse(f.builder.pattern,
                                     Some(UnwrapOr(ast.attrs.pattern, DefaultPattern)))
            /\ o.setter.into =
                  LocalElse(WrittenSetter(f).into,
                            IF IsSome(ast.attrs.setter)
                            THEN Some(Unwrap(ast.attrs.setter).into) ELSE None)
            /\ o.bindings = s.bindings
            /\ o.bindings = no_std_to_bindings(ast.attrs.no_std)

\* C14 witness: foo writes try_setter = false and pattern = "owned" under a
\* no_std struct that says try_setter = true and pattern = "immutable"; after
\* inheritance foo keeps both local values and has the struct's bindings.
C14_Witness ==
    /\ pc = "push_field"
    /\ idx = 0
    /\ ast.attrs.try_setter = Some(TRUE)
    /\ ast.attrs.pattern = Some("Immutable")
    /\ ast.attrs.no_std
    /\ ast.fields[1].builder.try_setter = Some(FALSE)
    /\ ast.fields[1].builder.pattern = Some("Owned")
    /\ Unwrap(f_level).try_setter = Some(FALSE)
    /\ Unwrap(f_level).pattern = Some("Owned")
    /\ Unwrap(f_level).bindings = "NoStd"

\* The expansion stopped inside a projection of the field being processed
\* (from_field stops with no field options held)
PanickedInProjection == pc = "panicked" /\ IsSome(f_level)

\* C15: whenever as_setter or as_initializer is about to run on a field's
\* options the pattern is set, to the local value or else the struct's; the
\* pattern expectation never fails; and a projection stops the expansion only
\* with the public/private contradiction or a default-expression failure.
C15_PatternAlwaysSet ==
    /\ pc \in {"push_setter_fn", "push_initializer"} =>
          /\ IsSome(Unwrap(f_level).pattern)
          /\ Unwrap(f_level).pattern
                = LocalElse(ast.fields[idx + 1].builder.pattern, Some(Unwrap(s_level).pattern))
    /\ fatal # Some(ExpectPattern)
    /\ PanickedInProjection =>
          fatal \in {Some(ContradictionMessage), Some(EmptyDefaultMessage),
                     Some(ParseFailureMessage)}

\* C15 witness: neither the struct nor bar writes a pattern; as_setter has run
\* on bar and as_initializer is about to, with the default pattern inherited.
C15_Witness ==
    /\ pc = "push_initializer"
    /\ idx = 1
    /\ IsNone(ast.attrs.pattern)
    /\ IsNone(ast.fields[2].builder.pattern)
    /\ Unwrap(f_level).pattern = Some(DefaultPattern)
    /\ Len(Unwrap(builder).functions) = 2
    /\ Unwrap(builder).functions[2].pattern = DefaultPattern

\* The bindings mode the declaration asks for
DeclaredBindings == no_std_to_bindings(ast.attrs.no_std)

\* Every descriptor of the list reports the bindings mode b
AllReport(descriptors, b) == \A i \in Pushed(descriptors) : descriptors[i].bindings = b

\* C16: within one expansion the resolved struct options, the builder skeleton,
\* the build-method skeleton and every builder-field, setter and initializer
\* descriptor produced so far report no-std bindings exactly when the struct
\* declares no_std, and standard bindings otherwise.
C16_UniformBindings ==
    /\ IsSome(s_level) => Unwrap(s_level).bindings = DeclaredBindings
    /\ IsSome(builder) =>
          /\ Unwrap(builder).bindings = DeclaredBindings
          /\ AllReport(Unwrap(builder).fields, DeclaredBindings)
          /\ AllReport(Unwrap(builder).functions, DeclaredBindings)
    /\ IsSome(build_fn) =>
          /\ Unwrap(build_fn).bindings = DeclaredBindings
          /\ AllReport(Unwrap(build_fn).initializers, DeclaredBindings)

====
